---- MODULE Spec2Model ----
(***************************************************************************)
(* Model of src/qc.py: the agenda comparison of a proxy PDF and a notice   *)
(* PDF.  Texts are sequences of one-character strings; the PDF library     *)
(* (PyMuPDF) is the environment: a document is a sequence of pages, each   *)
(* with the text its left clip yields and its annotations, each annotation *)
(* with its rectangle and the text its expanded rectangle yields.          *)
(***************************************************************************)
EXTENDS Integers, Sequences, FiniteSets, TLC

VARIABLES
    pc,            \* position of the run that the specification drives
    doc,           \* pick_agenda_clip: the opened document
    clip,          \* pick_agenda_clip: the returned (page_no, clip_rect, text)
    text,          \* split_proposals: its argument
    lines,         \* split_proposals: text.splitlines()
    li,            \* split_proposals: index of the next line of the for loop
    entries,       \* split_proposals: entries
    cur_label,     \* split_proposals: cur_label (None or a label)
    cur_lines,     \* split_proposals: cur_lines
    a,             \* compare_texts: first argument
    b,             \* compare_texts: second argument
    result,        \* compare_texts: the returned (status, reason)
    proxy,         \* build_report: the document behind proxy_path
    notice,        \* build_report: the document behind notice_path
    include_note,  \* build_report: include_note
    p_text_raw,    \* build_report: p_text_raw
    n_text_raw,    \* build_report: n_text_raw
    p_list,        \* build_report: p_list
    n_list,        \* build_report: n_list
    comparisons    \* build_report: comparisons

vars == <<pc, doc, clip, text, lines, li, entries, cur_label, cur_lines, a, b,
          result, proxy, notice, include_note, p_text_raw, n_text_raw, p_list,
          n_list, comparisons>>

clipVars == <<doc, clip>>
splitVars == <<text, lines, li, entries, cur_label, cur_lines>>
cmpVars == <<a, b, result>>
reportVars == <<proxy, notice, include_note, p_text_raw, n_text_raw, p_list,
                n_list, comparisons>>

\* Python's None; a value no text or label equals
None == <<"None">>

LEFT_CLIP_WIDTH_PTS == 540

(***************************************************************************)
(* Characters and the string primitives of Python that the code uses.      *)
(***************************************************************************)
UpperLetters ==
    <<"A", "B", "C", "D", "E", "F", "G", "H", "I", "J", "K", "L", "M",
      "N", "O", "P", "Q", "R", "S", "T", "U", "V", "W", "X", "Y", "Z">>

LowerLetters ==
    <<"a", "b", "c", "d", "e", "f", "g", "h", "i", "j", "k", "l", "m",
      "n", "o", "p", "q", "r", "s", "t", "u", "v", "w", "x", "y", "z">>

Range(s) == {s[i] : i \in DOMAIN s}

\* \s of the re module, over the characters the texts are built from
IsSpace(c) == c \in {" ", "\t", "\n"}

\* \d
IsDigit(c) == c \in {"0", "1", "2", "3", "4", "5", "6", "7", "8", "9"}

\* [a-z]
IsLower(c) == c \in Range(LowerLetters)

IsUpper(c) == c \in Range(UpperLetters)

\* \w: letters, digits and the underscore
IsWord(c) == IsLower(c) \/ IsUpper(c) \/ IsDigit(c) \/ c = "_"

\* str.lower() on one character
LowerChar(c) ==
    IF IsUpper(c)
    THEN LowerLetters[CHOOSE i \in DOMAIN UpperLetters : UpperLetters[i] = c]
    ELSE c

\* str.lower()
lower(s) == [i \in DOMAIN s |-> LowerChar(s[i])]

\* s[i:] with a 0-based Python index i
From(s, i) == SubSeq(s, i + 1, Len(s))

RECURSIVE lstrip(_)
lstrip(s) ==
    IF s # <<>> /\ IsSpace(Head(s)) THEN lstrip(Tail(s)) ELSE s

RECURSIVE rstrip(_)
rstrip(s) ==
    IF s # <<>> /\ IsSpace(s[Len(s)]) THEN rstrip(SubSeq(s, 1, Len(s) - 1)) ELSE s

\* str.strip()
strip(s) == rstrip(lstrip(s))

\* re.sub(r'\s+', ' ', s): every maximal run of whitespace becomes one space
RECURSIVE SubSpaces(_)
SubSpaces(s) ==
    IF s = <<>> THEN <<>>
    ELSE IF IsSpace(Head(s)) THEN <<" ">> \o SubSpaces(lstrip(s))
    ELSE <<Head(s)>> \o SubSpaces(Tail(s))

\* re.sub(r'[^\w\s]', '', s)
stripped_punc(s) == SelectSeq(s, LAMBDA c : IsWord(c) \/ IsSpace(c))

\* str.splitlines(): the pieces between line breaks, no piece after a final one
RECURSIVE splitlines(_)
splitlines(s) ==
    IF s = <<>> THEN <<>>
    ELSE IF \E i \in DOMAIN s : s[i] = "\n"
         THEN LET i == CHOOSE j \in DOMAIN s :
                           s[j] = "\n" /\ \A k \in 1..(j - 1) : s[k] # "\n"
              IN <<SubSeq(s, 1, i - 1)>> \o splitlines(From(s, i))
         ELSE <<s>>

\* sep.join(parts)
RECURSIVE join(_, _)
join(sep, parts) ==
    IF parts = <<>> THEN <<>>
    ELSE IF Len(parts) = 1 THEN parts[1]
    ELSE parts[1] \o sep \o join(sep, Tail(parts))

\* collapse_linebreaks(text)
collapse_linebreaks(s) == strip(SubSpaces(s))

\* the character at 1-based position i of s, or "" past its end
At(s, i) == IF i \in DOMAIN s THEN s[i] ELSE ""

\* The alternatives of label_pattern's group, tried at the start of r in the
\* order of the pattern, each with its greedy choices first:
\*   \d{1,2}(?:[a-z])?\.   |   0\d\)   |   \d{1,2}\)
\* The length of the match, or 0 when no alternative matches.
LabelGroupLen(r) ==
    LET two == IsDigit(At(r, 1)) /\ IsDigit(At(r, 2))
        one == IsDigit(At(r, 1))
    IN  IF two /\ IsLower(At(r, 3)) /\ At(r, 4) = "." THEN 4
        ELSE IF two /\ At(r, 3) = "." THEN 3
        ELSE IF one /\ IsLower(At(r, 2)) /\ At(r, 3) = "." THEN 3
        ELSE IF one /\ At(r, 2) = "." THEN 2
        ELSE IF At(r, 1) = "0" /\ IsDigit(At(r, 2)) /\ At(r, 3) = ")" THEN 3
        ELSE IF two /\ At(r, 3) = ")" THEN 3
        ELSE IF one /\ At(r, 2) = ")" THEN 2
        ELSE 0

\* the None that label_pattern.match and label_pattern.search return
NoMatch == [start |-> -1, end |-> -1]

\* label_pattern.match(s), and label_pattern.search(s): the pattern starts with ^
\* and is compiled without re.MULTILINE, so it matches at the start of s only.
\* NoMatch (Python's None), or the match as [start |-> m.start(1), end |-> m.end()].
label_pattern(s) ==
    LET ws == Len(s) - Len(lstrip(s))
        n == LabelGroupLen(lstrip(s))
    IN  IF n = 0 THEN NoMatch ELSE [start |-> ws, end |-> ws + n]

\* m.group(1)
group1(s, m) == SubSeq(s, m.start + 1, m.end)

\* ItemContent with the call of collapse_linebreaks left out
ItemContent_NoCollapse(ls) ==
    join(<<" ">>, SelectSeq([i \in DOMAIN ls |-> strip(ls[i])], LAMBDA l : l # <<>>))

\* " ".join([l.strip() for l in cur_lines if l.strip()]), then collapsed
ItemContent(ls) ==
    collapse_linebreaks(
        join(<<" ">>, SelectSeq([i \in DOMAIN ls |-> strip(ls[i])],
                                LAMBDA l : l # <<>>)))

\* One pass of the for loop of split_proposals over the line ln, from the
\* loop state st = [entries, cur_label, cur_lines].
SplitLine(st, ln) ==
    LET m == label_pattern(ln)
    IN  IF m # NoMatch
        THEN LET remainder == strip(From(ln, m.end))
             IN [entries |-> IF st.cur_label # None
                             THEN Append(st.entries,
                                         <<st.cur_label, ItemContent(st.cur_lines)>>)
                             ELSE st.entries,
                 cur_label |-> strip(group1(ln, m)),
                 cur_lines |-> IF remainder # <<>> THEN <<remainder>> ELSE <<>>]
        ELSE IF st.cur_label = None
             THEN st
             ELSE [st EXCEPT !.cur_lines = Append(st.cur_lines, ln)]

\* The statements after the for loop of split_proposals
SplitClose(st) ==
    IF st.cur_label # None
    THEN Append(st.entries, <<st.cur_label, ItemContent(st.cur_lines)>>)
    ELSE st.entries

RECURSIVE SplitLoop(_, _)
SplitLoop(st, ls) ==
    IF ls = <<>> THEN st ELSE SplitLoop(SplitLine(st, Head(ls)), Tail(ls))

\* split_proposals(text)
split_proposals(t) ==
    SplitClose(SplitLoop([entries |-> <<>>, cur_label |-> None, cur_lines |-> <<>>],
                         splitlines(t)))

\* the reason of a mismatch that compare_texts builds from its three tests; the
\* parts of the string in order, the ", " of the join included
\* Reasons with the case test made on the punctuation-stripped contents
Reasons_CaseAfterPunc(x, y) ==
    LET r1 == IF lower(stripped_punc(x)) = lower(stripped_punc(y))
              THEN <<"case-only difference">> ELSE <<>>
        r2 == IF stripped_punc(x) = stripped_punc(y)
              THEN <<"punctuation-only difference">> ELSE <<>>
        r3 == IF strip(SubSpaces(x)) = strip(SubSpaces(y))
              THEN <<"whitespace/linebreak differences only (after collapse)">>
              ELSE <<>>
        reason == r1 \o r2 \o r3
    IN  IF reason = <<>> THEN <<"content differs">>
        ELSE join(<<", ">>, [i \in DOMAIN reason |-> <<reason[i]>>])

\* Reasons with the case test lowering a only
Reasons_LowerOneSide(x, y) ==
    LET r1 == IF lower(x) = y THEN <<"case-only difference">> ELSE <<>>
        r2 == IF stripped_punc(x) = stripped_punc(y)
              THEN <<"punctuation-only difference">> ELSE <<>>
        r3 == IF strip(SubSpaces(x)) = strip(SubSpaces(y))
              THEN <<"whitespace/linebreak differences only (after collapse)">>
              ELSE <<>>
        reason == r1 \o r2 \o r3
    IN  IF reason = <<>> THEN <<"content differs">>
        ELSE join(<<", ">>, [i \in DOMAIN reason |-> <<reason[i]>>])

Reasons(x, y) ==
    LET r1 == IF lower(x) = lower(y) THEN <<"case-only difference">> ELSE <<>>
        r2 == IF stripped_punc(x) = stripped_punc(y)
              THEN <<"punctuation-only difference">> ELSE <<>>
        r3 == IF strip(SubSpaces(x)) = strip(SubSpaces(y))
              THEN <<"whitespace/linebreak differences only (after collapse)">>
              ELSE <<>>
        reason == r1 \o r2 \o r3
    IN  IF reason = <<>> THEN <<"content differs">>
        ELSE join(<<", ">>, [i \in DOMAIN reason |-> <<reason[i]>>])

\* compare_texts without its test for an empty b
compare_texts_NoMissingNotice(x, y) ==
    IF x = y THEN [status |-> "MATCH", reason |-> <<"Exact match">>]
    ELSE IF x = <<>> /\ y # <<>>
    THEN [status |-> "MISSING_IN_PROXY", reason |-> <<"Label missing in proxy">>]
    ELSE [status |-> "MISMATCH", reason |-> Reasons(x, y)]

\* compare_texts(a, b): (status, reason).  The ndiff snippet it also returns is
\* display only.
compare_texts(x, y) ==
    IF x = y THEN [status |-> "MATCH", reason |-> <<"Exact match">>]
    ELSE IF x = <<>> /\ y # <<>>
    THEN [status |-> "MISSING_IN_PROXY", reason |-> <<"Label missing in proxy">>]
    ELSE IF x # <<>> /\ y = <<>>
    THEN [status |-> "MISSING_IN_NOTICE", reason |-> <<"Label missing in notice">>]
    ELSE [status |-> "MISMATCH", reason |-> Reasons(x, y)]

(***************************************************************************)
(* The region locator.  A page is [rect, left, annots]: its rectangle, the *)
(* text page.get_text gives for the left clip, and its annotations in the  *)
(* order of first_annot/next, each [rect, text] with the text get_text     *)
(* gives for the expanded rectangle.  Rectangles are [x0, y0, x1, y1].     *)
(***************************************************************************)
Max(x, y) == IF x >= y THEN x ELSE y

Min(x, y) == IF x <= y THEN x ELSE y

\* the test of find_rectangle_annotation on one annotation
IsRectangleLike(an) ==
    (an.rect.x1 - an.rect.x0) > 10 /\ (an.rect.y1 - an.rect.y0) > 10

\* the None that find_rectangle_annotation returns
NoAnnot == [pno |-> -1, ano |-> 0]

\* find_rectangle_annotation(doc): NoAnnot, or [pno, ano] of the first annotation
\* found in page order that passes the test (pno 0-based, ano its index)
find_rectangle_annotation(d) ==
    LET hits == {p \in DOMAIN d : \E k \in DOMAIN d[p].annots :
                                      IsRectangleLike(d[p].annots[k])}
    IN  IF hits = {} THEN NoAnnot
        ELSE LET p == CHOOSE q \in hits : \A r \in hits : q <= r
                 k == CHOOSE i \in DOMAIN d[p].annots :
                          /\ IsRectangleLike(d[p].annots[i])
                          /\ \A j \in 1..(i - 1) : ~IsRectangleLike(d[p].annots[j])
             IN [pno |-> p - 1, ano |-> k]

\* the left clip of a page: fitz.Rect(0, 0, LEFT_CLIP_WIDTH_PTS, page.rect.height)
LeftClip(page) ==
    [x0 |-> 0, y0 |-> 0, x1 |-> LEFT_CLIP_WIDTH_PTS,
     y1 |-> page.rect.y1 - page.rect.y0]

\* the pages of the fallback loop of pick_agenda_clip whose text the pattern finds
SearchHits(d) == {p \in DOMAIN d : label_pattern(d[p].left) # NoMatch}

\* pick_agenda_clip(path) on the document d that path opens:
\* [pno, rect, txt]
pick_agenda_clip(d) ==
    LET found == find_rectangle_annotation(d)
    IN  IF found # NoAnnot
        THEN LET page == d[found.pno + 1]
                 an == page.annots[found.ano]
             IN [pno |-> found.pno,
                 rect |-> [x0 |-> Max(page.rect.x0, an.rect.x0 - 6),
                           y0 |-> Max(page.rect.y0, an.rect.y0 - 6),
                           x1 |-> Min(page.rect.x1, an.rect.x1 + 6),
                           y1 |-> Min(page.rect.y1, an.rect.y1 + 6)],
                 txt |-> an.text]
        ELSE IF SearchHits(d) # {}
        THEN LET p == CHOOSE q \in SearchHits(d) : \A r \in SearchHits(d) : q <= r
             IN [pno |-> p - 1, rect |-> LeftClip(d[p]), txt |-> d[p].left]
        ELSE [pno |-> 0, rect |-> LeftClip(d[1]), txt |-> d[1].left]

(***************************************************************************)
(* build_report, up to the comparisons it returns.  The PDF report it      *)
(* writes renders the comparisons and changes none of them.                *)
(***************************************************************************)
\* the positions (1-based) where \bNOTE\b matches t, ignoring case
NotePositions(t) ==
    {i \in DOMAIN t :
        /\ i + 3 <= Len(t)
        /\ lower(SubSeq(t, i, i + 3)) = <<"n", "o", "t", "e">>
        /\ (i = 1 \/ ~IsWord(t[i - 1]))
        /\ (i + 4 > Len(t) \/ ~IsWord(t[i + 4]))}

\* [:\s-]* from position j on, greedy: the position after the run
RECURSIVE SkipSeparators(_, _)
SkipSeparators(t, j) ==
    IF j <= Len(t) /\ (IsSpace(t[j]) \/ t[j] \in {":", "-"})
    THEN SkipSeparators(t, j + 1)
    ELSE j

\* (.*)$ from position j on: . matches no newline, and $ (no re.MULTILINE)
\* matches at the end of t or before a newline that ends t.  The position
\* after the group, or 0 when there is no match.
RestOfLastLine(t, j) ==
    LET nl == {k \in j..Len(t) : t[k] = "\n"}
    IN  IF nl = {} THEN Len(t) + 1
        ELSE IF nl = {Len(t)} THEN Len(t)
        ELSE 0

\* extract_note_block(text): re.search(r'\bNOTE\b[:\s-]*(.*)$', text,
\* re.IGNORECASE) takes the leftmost position that matches
extract_note_block(t) ==
    LET ok == {i \in NotePositions(t) :
                   RestOfLastLine(t, SkipSeparators(t, i + 4)) # 0}
    IN  IF ok = {} THEN None
        ELSE LET i == CHOOSE p \in ok : \A q \in ok : p <= q
                 j == SkipSeparators(t, i + 4)
             IN <<<<"N", "O", "T", "E">>,
                  collapse_linebreaks(SubSeq(t, j, RestOfLastLine(t, j) - 1))>>

\* lbl.upper().startswith("NOTE")
StartsWithNote(lbl) ==
    Len(lbl) >= 4 /\ lower(SubSeq(lbl, 1, 4)) = <<"n", "o", "t", "e">>

\* the include_note block of build_report on one raw text and its list
AddNoteBlock(raw, lst) ==
    LET nb == extract_note_block(raw)
    IN  IF nb # None /\ ~\E i \in DOMAIN lst : StartsWithNote(lst[i][1])
        THEN Append(lst, nb)
        ELSE lst

\* to_dict's loop with d[key] = txt outside the if: the last occurrence wins
RECURSIVE ToDictLoop_Overwrite(_, _, _)
ToDictLoop_Overwrite(lst, d, order) ==
    IF lst = <<>> THEN [d |-> d, order |-> order]
    ELSE LET key == strip(Head(lst)[1])
             txt == Head(lst)[2]
         IN ToDictLoop_Overwrite(Tail(lst), (key :> txt) @@ d,
                                 IF key \notin DOMAIN d THEN Append(order, key)
                                 ELSE order)

\* to_dict(lst): [d, order], d a function on the labels of order
RECURSIVE ToDictLoop(_, _, _)
ToDictLoop(lst, d, order) ==
    IF lst = <<>> THEN [d |-> d, order |-> order]
    ELSE LET key == strip(Head(lst)[1])
             txt == Head(lst)[2]
         IN IF key \notin DOMAIN d
            THEN ToDictLoop(Tail(lst), (key :> txt) @@ d, Append(order, key))
            ELSE ToDictLoop(Tail(lst), d, order)

to_dict(lst) == ToDictLoop(lst, <<>>, <<>>)

\* the loop without its test lbl not in all_labels
RECURSIVE AddLabels_NoCheck(_, _)
AddLabels_NoCheck(all_labels, order) ==
    IF order = <<>> THEN all_labels
    ELSE AddLabels_NoCheck(Append(all_labels, Head(order)), Tail(order))

\* one of the two loops that fill all_labels
RECURSIVE AddLabels(_, _)
AddLabels(all_labels, order) ==
    IF order = <<>> THEN all_labels
    ELSE AddLabels(IF Head(order) \notin Range(all_labels)
                   THEN Append(all_labels, Head(order)) ELSE all_labels,
                   Tail(order))

\* d.get(lbl, "")
Get(d, lbl) == IF lbl \in DOMAIN d THEN d[lbl] ELSE <<>>

\* build_report from to_dict on: the comparisons of the two lists
Compare(pl, nl) ==
    LET p == to_dict(pl)
        n == to_dict(nl)
        all_labels == AddLabels(AddLabels(<<>>, p.order), n.order)
    IN  [i \in DOMAIN all_labels |->
            LET lbl == all_labels[i]
                r == compare_texts(Get(p.d, lbl), Get(n.d, lbl))
            IN [label |-> lbl,
                proxy_text |-> Get(p.d, lbl),
                notice_text |-> Get(n.d, lbl),
                status |-> r.status,
                reason |-> r.reason]]

\* the list of one document as build_report hands it to to_dict
ItemList(d, note) ==
    LET raw == pick_agenda_clip(d).txt
        lst == split_proposals(raw)
    IN  IF note THEN AddNoteBlock(raw, lst) ELSE lst

\* build_report(proxy_path, notice_path, out_pdf_path, include_note): the
\* comparisons it returns
build_report(px, nx, note) == Compare(ItemList(px, note), ItemList(nx, note))

(***************************************************************************)
(* Bounds and the inputs drawn within them.                                *)
(***************************************************************************)
MaxCmpLen == 3

MaxTextLen == 6

MaxPages == 2

MaxLines == 2

\* the texts of at most n characters of cs
Strings(cs, n) == UNION {[1..k -> cs] : k \in 0..n}

\* the value of a variable that the specification at hand does not use
Idle == <<>>

IdleClip == doc = Idle /\ clip = Idle

IdleSplit ==
    /\ text = Idle
    /\ lines = Idle
    /\ li = Idle
    /\ entries = Idle
    /\ cur_label = Idle
    /\ cur_lines = Idle

IdleCmp == a = Idle /\ b = Idle /\ result = Idle

IdleReport ==
    /\ proxy = Idle
    /\ notice = Idle
    /\ include_note = Idle
    /\ p_text_raw = Idle
    /\ n_text_raw = Idle
    /\ p_list = Idle
    /\ n_list = Idle
    /\ comparisons = Idle

\* contents handed to compare_texts
CmpChars == {"A", "a", ".", " "}

\* region texts handed to split_proposals
SplitChars == {"1", ".", "a", " ", "\n"}

\* left-clip texts of the pages handed to pick_agenda_clip: no label, a label
\* on the first line, a label after a header line, a label after a blank line
ClipTexts ==
    {<<"x">>, <<"1", ".">>, <<"x", "\n", "1", ".">>, <<"\n", " ", "1", ".">>}

PageRect == [x0 |-> 0, y0 |-> 0, x1 |-> 612, y1 |-> 792]

\* the annotations of a page: none, one too small to count (10 by 10), one
\* that counts and lies within 6 points of the page's corner
ClipAnnots ==
    {<<>>,
     <<[rect |-> [x0 |-> 100, y0 |-> 100, x1 |-> 110, y1 |-> 110],
        text |-> <<"1", ")">>]>>,
     <<[rect |-> [x0 |-> 2, y0 |-> 2, x1 |-> 200, y1 |-> 300],
        text |-> <<"2", ")">>]>>}

ClipPages ==
    {[rect |-> PageRect, left |-> t, annots |-> an] :
        t \in ClipTexts, an \in ClipAnnots}

ClipDocs == UNION {[1..k -> ClipPages] : k \in 1..MaxPages}

\* the lines of the region texts handed to build_report
ReportLines ==
    {<<"1", ".">>,
     <<"1", ".", " ", "a">>,
     <<"1", ".", " ", "A">>,
     <<"2", ")", " ", "a">>,
     <<"N", "O", "T", "E", " ", "a">>}

ReportTexts ==
    {join(<<"\n">>, ls) : ls \in UNION {[1..k -> ReportLines] : k \in 0..MaxLines}}

\* a document of one page without annotations whose left clip yields t
OnePage(t) == <<[rect |-> PageRect, left |-> t, annots |-> <<>>]>>

(***************************************************************************)
(* compare_texts on its own.                                               *)
(***************************************************************************)
InitCmp ==
    /\ pc = "compare_texts"
    /\ a \in Strings(CmpChars, MaxCmpLen)
    /\ b \in Strings(CmpChars, MaxCmpLen)
    /\ result = Idle
    /\ IdleClip
    /\ IdleSplit
    /\ IdleReport

CompareTexts ==
    /\ pc = "compare_texts"
    /\ result' = compare_texts(a, b)
    /\ pc' = "done"
    /\ UNCHANGED <<a, b, clipVars, splitVars, reportVars>>

NextCmp == CompareTexts

SpecCmp == InitCmp /\ [][NextCmp]_vars

(***************************************************************************)
(* split_proposals on its own, one line of its loop at a time.             *)
(***************************************************************************)
InitSplit ==
    /\ pc = "split_proposals"
    /\ text \in Strings(SplitChars, MaxTextLen)
    /\ lines = Idle
    /\ li = Idle
    /\ entries = Idle
    /\ cur_label = Idle
    /\ cur_lines = Idle
    /\ IdleClip
    /\ IdleCmp
    /\ IdleReport

SplitStart ==
    /\ pc = "split_proposals"
    /\ lines' = splitlines(text)
    /\ li' = 1
    /\ entries' = <<>>
    /\ cur_label' = None
    /\ cur_lines' = <<>>
    /\ pc' = "for"
    /\ UNCHANGED <<text, clipVars, cmpVars, reportVars>>

SplitFor ==
    /\ pc = "for"
    /\ li <= Len(lines)
    /\ LET st == SplitLine([entries |-> entries, cur_label |-> cur_label,
                            cur_lines |-> cur_lines], lines[li])
       IN /\ entries' = st.entries
          /\ cur_label' = st.cur_label
          /\ cur_lines' = st.cur_lines
    /\ li' = li + 1
    /\ UNCHANGED <<pc, text, lines, clipVars, cmpVars, reportVars>>

SplitReturn ==
    /\ pc = "for"
    /\ li > Len(lines)
    /\ entries' = SplitClose([entries |-> entries, cur_label |-> cur_label,
                              cur_lines |-> cur_lines])
    /\ pc' = "done"
    /\ UNCHANGED <<text, lines, li, cur_label, cur_lines, clipVars, cmpVars,
                   reportVars>>

NextSplit == SplitStart \/ SplitFor \/ SplitReturn

SpecSplit == InitSplit /\ [][NextSplit]_vars

(***************************************************************************)
(* pick_agenda_clip on its own.                                            *)
(***************************************************************************)
InitClip ==
    /\ pc = "pick_agenda_clip"
    /\ doc \in ClipDocs
    /\ clip = Idle
    /\ IdleSplit
    /\ IdleCmp
    /\ IdleReport

PickAgendaClip ==
    /\ pc = "pick_agenda_clip"
    /\ clip' = pick_agenda_clip(doc)
    /\ pc' = "done"
    /\ UNCHANGED <<doc, splitVars, cmpVars, reportVars>>

NextClip == PickAgendaClip

SpecClip == InitClip /\ [][NextClip]_vars

(***************************************************************************)
(* build_report.                                                           *)
(***************************************************************************)
Init ==
    /\ pc = "clips"
    /\ proxy \in {OnePage(t) : t \in ReportTexts}
    /\ notice \in {OnePage(t) : t \in ReportTexts}
    /\ include_note \in BOOLEAN
    /\ p_text_raw = Idle
    /\ n_text_raw = Idle
    /\ p_list = Idle
    /\ n_list = Idle
    /\ comparisons = Idle
    /\ IdleClip
    /\ IdleSplit
    /\ IdleCmp

\* p_pno, p_rect, p_text_raw = pick_agenda_clip(proxy_path), and the notice's
PickClips ==
    /\ pc = "clips"
    /\ p_text_raw' = pick_agenda_clip(proxy).txt
    /\ n_text_raw' = pick_agenda_clip(notice).txt
    /\ pc' = "split"
    /\ UNCHANGED <<proxy, notice, include_note, p_list, n_list, comparisons,
                   clipVars, splitVars, cmpVars>>

\* p_list = split_proposals(p_text_raw), and the notice's
SplitProposals ==
    /\ pc = "split"
    /\ p_list' = split_proposals(p_text_raw)
    /\ n_list' = split_proposals(n_text_raw)
    /\ pc' = "note"
    /\ UNCHANGED <<proxy, notice, include_note, p_text_raw, n_text_raw,
                   comparisons, clipVars, splitVars, cmpVars>>

\* if include_note: ...
NoteBlock ==
    /\ pc = "note"
    /\ p_list' = IF include_note THEN AddNoteBlock(p_text_raw, p_list) ELSE p_list
    /\ n_list' = IF include_note THEN AddNoteBlock(n_text_raw, n_list) ELSE n_list
    /\ pc' = "compare"
    /\ UNCHANGED <<proxy, notice, include_note, p_text_raw, n_text_raw,
                   comparisons, clipVars, splitVars, cmpVars>>

\* to_dict, all_labels and the loop that fills comparisons, which
\* build_report returns
CompareLabels ==
    /\ pc = "compare"
    /\ comparisons' = Compare(p_list, n_list)
    /\ pc' = "done"
    /\ UNCHANGED <<proxy, notice, include_note, p_text_raw, n_text_raw, p_list,
                   n_list, clipVars, splitVars, cmpVars>>

Next == PickClips \/ SplitProposals \/ NoteBlock \/ CompareLabels

Spec == Init /\ [][Next]_vars

(***************************************************************************)
(* Properties of compare_texts (SpecCmp).                                  *)
(***************************************************************************)
\* a and b differ in letter case and in punctuation and in nothing else
CaseAndPunctuationOnly(x, y) ==
    /\ lower(stripped_punc(x)) = lower(stripped_punc(y))
    /\ lower(x) # lower(y)
    /\ stripped_punc(x) # stripped_punc(y)

\* C5 as stated: two contents that differ in both letter case and punctuation
\* and in nothing else get MISMATCH with a reason that includes both
\* "case-only difference" and "punctuation-only difference".
C5_BothReasons ==
    (pc = "done" /\ CaseAndPunctuationOnly(a, b)) =>
        /\ result.status = "MISMATCH"
        /\ "case-only difference" \in Range(result.reason)
        /\ "punctuation-only difference" \in Range(result.reason)

\* C5 as amended: two contents that differ in both letter case and punctuation
\* and in nothing else get MISMATCH with the reason "content differs", which
\* includes neither "case-only difference" nor "punctuation-only difference".
C5_ContentDiffers ==
    (pc = "done" /\ CaseAndPunctuationOnly(a, b)) =>
        /\ result.status = "MISMATCH"
        /\ result.reason = <<"content differs">>

\* compare_texts has returned for "A." against "a"
C5_Witness ==
    /\ pc = "done"
    /\ a = <<"A", ".">>
    /\ b = <<"a">>
    /\ CaseAndPunctuationOnly(a, b)

\* C6: for non-empty contents a # b whose lowercase forms are equal,
\* compare_texts returns MISMATCH and its reason contains "case-only difference".
C6_CaseOnlyReported ==
    (pc = "done" /\ a # <<>> /\ b # <<>> /\ a # b /\ lower(a) = lower(b)) =>
        /\ result.status = "MISMATCH"
        /\ "case-only difference" \in Range(result.reason)

\* compare_texts has returned for two non-empty contents that differ in case
\* only, one of them with punctuation and a space
C6_Witness ==
    /\ pc = "done"
    /\ a # b
    /\ lower(a) = lower(b)
    /\ Len(a) = MaxCmpLen
    /\ "." \in Range(a)
    /\ " " \in Range(a)

(***************************************************************************)
(* Properties of split_proposals (SpecSplit).                              *)
(***************************************************************************)
\* the lines that the label grammar matches
LabelLines == {i \in DOMAIN lines : label_pattern(lines[i]) # NoMatch}

\* the k-th of them in line order
KthLabelLine(k) ==
    CHOOSE i \in LabelLines : Cardinality({j \in LabelLines : j <= i}) = k

\* no newline or tab, no two spaces in a row, no space at either end
SingleLine(c) ==
    /\ \A i \in DOMAIN c : c[i] \notin {"\n", "\t"}
    /\ \A i \in 1..(Len(c) - 1) : ~(c[i] = " " /\ c[i + 1] = " ")
    /\ c # <<>> => (c[1] # " " /\ c[Len(c)] # " ")

\* C10: split_proposals emits exactly one item per label-matching line, in line
\* order; lines before the first label line appear in no item; each item's
\* content is the remainder of its label line followed by every following
\* non-label line up to the next label line, joined by single spaces and
\* whitespace-collapsed, so it has no newline, no run of two spaces and no
\* leading or trailing space.
C10_OneItemPerLabelLine ==
    pc = "done" =>
        /\ Len(entries) = Cardinality(LabelLines)
        /\ \A k \in DOMAIN entries :
              LET i == KthLabelLine(k)
                  nxt == IF k < Len(entries) THEN KthLabelLine(k + 1)
                         ELSE Len(lines) + 1
                  m == label_pattern(lines[i])
              IN /\ entries[k][1] = SubSeq(lines[i], m.start + 1, m.end)
                 /\ entries[k][2] =
                        collapse_linebreaks(
                            join(<<" ">>, <<From(lines[i], m.end)>>
                                          \o SubSeq(lines, i + 1, nxt - 1)))
                 /\ SingleLine(entries[k][2])

\* split_proposals has returned two items with different contents
C10_Witness ==
    /\ pc = "done"
    /\ Len(entries) = 2
    /\ entries[1][2] # entries[2][2]

(***************************************************************************)
(* Properties of pick_agenda_clip (SpecClip).                              *)
(***************************************************************************)
\* at least one line of t matches the label grammar
HasLabelLine(t) ==
    \E i \in DOMAIN splitlines(t) : label_pattern(splitlines(t)[i]) # NoMatch

\* C9 as stated: without a qualifying rectangle annotation pick_agenda_clip
\* returns the lowest-index page whose left-clip text has a line matching the
\* label grammar, also when that line is not the first non-blank line, and
\* page 0 only when no page has such a line.
C9_FirstPageWithLabelLine ==
    (pc = "done" /\ find_rectangle_annotation(doc) = NoAnnot) =>
        LET hits == {p \in DOMAIN doc : HasLabelLine(doc[p].left)}
        IN  /\ hits # {} => /\ clip.pno + 1 \in hits
                            /\ \A p \in hits : clip.pno + 1 <= p
            /\ hits = {} => clip.pno = 0

(***************************************************************************)
(* Properties of build_report (Spec).                                      *)
(***************************************************************************)
\* the labels of a list of items or of results, in order
ItemLabels(lst) == [i \in DOMAIN lst |-> lst[i][1]]

ResultLabels(cs) == [i \in DOMAIN cs |-> cs[i].label]

\* the index of the first occurrence of x in s
First(s, x) == CHOOSE i \in DOMAIN s : s[i] = x /\ \A j \in 1..(i - 1) : s[j] # x

OrdinaryStatuses == {"MATCH", "MISMATCH", "MISSING_IN_PROXY", "MISSING_IN_NOTICE"}

\* C1: the labels of the comparisons are those of the proxy's list and of the
\* notice's list, each exactly once and nothing else, the proxy's first in the
\* order of their first occurrence there, then those only in the notice's in the
\* order of their first occurrence there.
C1_LabelUniverse ==
    pc = "done" =>
        LET L == ResultLabels(comparisons)
            A == ItemLabels(p_list)
            B == ItemLabels(n_list)
        IN  /\ Range(L) = Range(A) \cup Range(B)
            /\ \A i, j \in DOMAIN L : i # j => L[i] # L[j]
            /\ \A i, j \in DOMAIN L : i < j =>
                  \/ L[i] \in Range(A) /\ L[j] \notin Range(A)
                  \/ /\ L[i] \in Range(A)
                     /\ L[j] \in Range(A)
                     /\ First(A, L[i]) < First(A, L[j])
                  \/ /\ L[i] \notin Range(A)
                     /\ L[j] \notin Range(A)
                     /\ First(B, L[i]) < First(B, L[j])

\* build_report has returned three results where the notice starts with a label
\* of its own, before one that it shares with the proxy
C1_Witness ==
    /\ pc = "done"
    /\ Len(comparisons) = 3
    /\ n_list # <<>>
    /\ n_list[1][1] \notin Range(ItemLabels(p_list))
    /\ \E j \in DOMAIN n_list : n_list[j][1] \in Range(ItemLabels(p_list))

\* C2 as stated: a label only in the proxy's list has status MISSING_IN_NOTICE
\* and a label only in the notice's list has status MISSING_IN_PROXY, whatever
\* the item's content, the empty content included.
C2_MissingSide ==
    pc = "done" =>
        \A i \in DOMAIN comparisons :
            LET lbl == comparisons[i].label
                inA == lbl \in Range(ItemLabels(p_list))
                inB == lbl \in Range(ItemLabels(n_list))
            IN  /\ (inA /\ ~inB) => comparisons[i].status = "MISSING_IN_NOTICE"
                /\ (inB /\ ~inA) => comparisons[i].status = "MISSING_IN_PROXY"

\* C3 as stated: a label in both lists has status MATCH exactly when the two
\* collapsed contents are equal and MISMATCH otherwise, never a MISSING status.
C3_MatchOrMismatch ==
    pc = "done" =>
        \A i \in DOMAIN comparisons :
            LET lbl == comparisons[i].label
                A == ItemLabels(p_list)
                B == ItemLabels(n_list)
            IN  (lbl \in Range(A) /\ lbl \in Range(B)) =>
                    comparisons[i].status =
                        IF p_list[First(A, lbl)][2] = n_list[First(B, lbl)][2]
                        THEN "MATCH" ELSE "MISMATCH"

\* C4 as stated: when the segmentation of a document yields no item, the
\* comparisons carry a result that is none of the ordinary outcomes.
C4_NoLabelsFound ==
    (/\ pc = "done"
     /\ \/ split_proposals(p_text_raw) = <<>>
        \/ split_proposals(n_text_raw) = <<>>) =>
        \E i \in DOMAIN comparisons : comparisons[i].status \notin OrdinaryStatuses

\* the status of the run with the documents exchanged
Mirror(st) ==
    CASE st = "MISSING_IN_PROXY" -> "MISSING_IN_NOTICE"
      [] st = "MISSING_IN_NOTICE" -> "MISSING_IN_PROXY"
      [] OTHER -> st

\* C7: exchanging the two documents leaves the set of result labels unchanged
\* and, label by label, exchanges MISSING_IN_PROXY and MISSING_IN_NOTICE and
\* leaves MATCH and MISMATCH as they are.
C7_SwapSymmetry ==
    pc = "done" =>
        LET swapped == build_report(notice, proxy, include_note)
        IN  /\ Range(ResultLabels(swapped)) = Range(ResultLabels(comparisons))
            /\ \A i \in DOMAIN comparisons : \A j \in DOMAIN swapped :
                  swapped[j].label = comparisons[i].label =>
                      swapped[j].status = Mirror(comparisons[i].status)

\* build_report has returned a mismatch and a label missing in each document
C7_Witness ==
    /\ pc = "done"
    /\ \E i \in DOMAIN comparisons : comparisons[i].status = "MISMATCH"
    /\ \E i \in DOMAIN comparisons : comparisons[i].status = "MISSING_IN_NOTICE"
    /\ \E i \in DOMAIN comparisons : comparisons[i].status = "MISSING_IN_PROXY"

\* the results for lbl
ResultsFor(lbl) == {i \in DOMAIN comparisons : comparisons[i].label = lbl}

\* C8: when a label occurs more than once in a document, the content compared
\* for it is that of its first occurrence, and the label has one result.
C8_FirstOccurrenceWins ==
    pc = "done" =>
        /\ \A i \in DOMAIN p_list :
              (\A j \in 1..(i - 1) : p_list[j][1] # p_list[i][1]) =>
                  /\ Cardinality(ResultsFor(p_list[i][1])) = 1
                  /\ \A k \in ResultsFor(p_list[i][1]) :
                        comparisons[k].proxy_text = p_list[i][2]
        /\ \A i \in DOMAIN n_list :
              (\A j \in 1..(i - 1) : n_list[j][1] # n_list[i][1]) =>
                  /\ Cardinality(ResultsFor(n_list[i][1])) = 1
                  /\ \A k \in ResultsFor(n_list[i][1]) :
                        comparisons[k].notice_text = n_list[i][2]

\* build_report has returned where each document repeats a label with another
\* content
C8_Witness ==
    /\ pc = "done"
    /\ \E i, j \in DOMAIN p_list :
          i < j /\ p_list[i][1] = p_list[j][1] /\ p_list[i][2] # p_list[j][2]
    /\ \E i, j \in DOMAIN n_list :
          i < j /\ n_list[i][1] = n_list[j][1] /\ n_list[i][2] # n_list[j][2]

====
